---- MODULE Spec2Model ----
(***************************************************************************)
(* FlowMind task service: the Task / TaskDependency store, the dependency  *)
(* graph check, the task lifecycle and natural-language task intake.       *)
(*                                                                         *)
(* Time is counted in hours.  Python None is NoneInt for integer, id and   *)
(* timestamp values (all real ones are >= 1), NoneStr for enum values and  *)
(* NoneText for text; text is a sequence of characters.                    *)
(***************************************************************************)
EXTENDS Integers, Sequences, FiniteSets, Bags, TLC

\* ---- bounds of the model ----
\* task ids the sequence tasks.id may hand out
MaxTasks == 3
\* rows task_dependencies may hold
MaxDeps == 3
\* add_task_dependency requests that may be in flight together
MaxRequests == 2
\* task ids handed out in the specifications that need no more than a pair of tasks
MaxFewTasks == 2
\* dependency rows a run of the owner-scoped operations may insert
MaxFewDeps == 1
\* runs of the optimize_user_schedules job that follow one another
MaxRuns == 2
\* times a payload is sent in the runs that go through the payloads of the AI scores
MaxScored == 2

\* ---- values ----
Users == {1, 2}
TaskIds == 1..MaxTasks
FewIds == 1..MaxFewTasks
NoneInt == 0
NoneStr == "None"
NoneText == <<>>
PENDING == "pending"
IN_PROGRESS == "in_progress"
COMPLETED == "completed"
CANCELLED == "cancelled"
ON_HOLD == "on_hold"
TaskStatus == {PENDING, IN_PROGRESS, COMPLETED, CANCELLED, ON_HOLD}
TaskPriority == {"low", "medium", "high", "urgent"}

\* a text of n characters c
Text(n, c) == [i \in 1..n |-> c]

\* d.get(k, default) of a Python dict
Get(d, k, default) == IF k \in DOMAIN d THEN d[k] ELSE default

VARIABLES
    tasks,        \* table tasks: id -> row
    deps,         \* table task_dependencies: a bag of rows (a row's own id, which no
                  \* query reads, is left out; equal rows are counted)
    nextTaskId,   \* the sequence behind tasks.id
    nextDepId,    \* the sequence behind task_dependencies.id
    now,          \* datetime.utcnow(); the calls of one run fall within one hour
    requests,     \* add_task_dependency requests in flight, each on its own session
    background,   \* FastAPI BackgroundTasks queued by a response
    job_run,      \* the run of the Celery task optimize_user_schedules
    last          \* the last call and what it returned to its caller

vars == <<tasks, deps, nextTaskId, nextDepId, now, requests, background, job_run, last>>

\* ---- Task Store -------------------------------------------------------

\* select(Task).where(and_(Task.id == task_id, Task.user_id == user_id)).scalar_one_or_none()
OwnedTask(T, task_id, user_id) ==
    task_id \in DOMAIN T /\ T[task_id].user_id = user_id

\* the fields of TaskCreate the service reads (tags, category, project, workspace,
\* page and recurrence are copied through and read by nothing modelled here)
DefaultCreate ==
    [title |-> Text(1, "t"), description |-> NoneText, priority |-> "medium",
     due_date |-> NoneInt, estimated_duration |-> NoneInt,
     parent_task_id |-> NoneInt, ai_generated |-> FALSE, ai_context |-> <<>>]

\* (task.due_date - datetime.utcnow()).days: whole days, rounded down
DaysUntil(due_date, t) == (due_date - t) \div 24

\* mutant: the score is not capped at 100
Clamp_NoCeiling(score) == IF score < 0 THEN 0 ELSE score

\* min(max(score, 0), 100)
Clamp(score) == IF score < 0 THEN 0 ELSE IF score > 100 THEN 100 ELSE score

_calculate_ai_priority_score(task, t) ==
    LET base == CASE task.priority = "low" -> 25
                  [] task.priority = "medium" -> 50
                  [] task.priority = "high" -> 75
                  [] task.priority = "urgent" -> 95
                  [] OTHER -> 50
        days == DaysUntil(task.due_date, t)
        bonus == IF task.due_date = NoneInt THEN 0
                 ELSE IF days <= 1 THEN 20
                 ELSE IF days <= 3 THEN 10
                 ELSE IF days <= 7 THEN 5
                 ELSE 0
    IN Clamp(base + bonus)

_calculate_ai_complexity_score(task) ==
    LET d == task.estimated_duration
        n == Len(task.description)
        byDuration == IF d = NoneInt THEN 0
                      ELSE IF d > 240 THEN 40
                      ELSE IF d > 120 THEN 25
                      ELSE IF d > 60 THEN 15
                      ELSE 0
        byLength == IF n > 500 THEN 20 ELSE IF n > 200 THEN 10 ELSE 0
    IN Clamp(30 + byDuration + byLength)

\* the row Task(...) of create_task, with the column defaults of the model
NewTask(task_data, user_id, t) ==
    LET row == [user_id |-> user_id,
                title |-> task_data.title,
                description |-> task_data.description,
                status |-> PENDING,
                priority |-> task_data.priority,
                due_date |-> task_data.due_date,
                estimated_duration |-> task_data.estimated_duration,
                parent_task_id |-> task_data.parent_task_id,
                ai_generated |-> task_data.ai_generated,
                ai_context |-> task_data.ai_context,
                ai_priority_score |-> NoneInt,
                ai_complexity_score |-> NoneInt,
                ai_suggested_time_slot |-> NoneInt,
                created_at |-> t,
                updated_at |-> NoneInt,
                completed_at |-> NoneInt]
    IN IF task_data.ai_generated
       THEN [row EXCEPT !.ai_priority_score = _calculate_ai_priority_score(row, t),
                        !.ai_complexity_score = _calculate_ai_complexity_score(row)]
       ELSE row

\* the foreign key tasks.parent_task_id -> tasks.id, checked at commit
ParentKeyHolds(T, task_data) ==
    task_data.parent_task_id = NoneInt \/ task_data.parent_task_id \in DOMAIN T

\* task.due_date - datetime.utcnow() in _calculate_ai_priority_score: utcnow()
\* carries no UTC offset, and subtracting it from a due_date that carries one
\* (task_data.tzinfo, absent when due_date was given without offset) raises
\* TypeError
ScoreRaises(task_data) ==
    /\ task_data.ai_generated
    /\ task_data.due_date # NoneInt
    /\ Get(task_data, "tzinfo", NoneStr) # NoneStr

\* what the driver hands back for a DateTime(timezone=True) column: asyncpg on
\* PostgreSQL (the configured DATABASE_URL) returns datetimes that carry the UTC
\* offset, a backend without time zones returns naive ones
LoadedTzinfo == {"UTC", NoneStr}

\* task.due_date < now in _task_to_response, with now = datetime.utcnow(): the row
\* was loaded or refreshed from the database, and comparing a datetime that carries
\* an offset with a naive one raises TypeError
ResponseRaises(row, tzinfo) == row.due_date # NoneInt /\ tzinfo # NoneStr

\* the effect of TaskService.create_task on the tables; nothing is sent to the
\* database when the scores raise, and the sequence moves on also when the INSERT
\* is refused
CreateEffect(task_data, user_id) ==
    IF ScoreRaises(task_data) THEN UNCHANGED <<nextTaskId, tasks>>
    ELSE /\ nextTaskId' = nextTaskId + 1
         /\ tasks' = IF ParentKeyHolds(tasks, task_data)
                     THEN [i \in DOMAIN tasks \cup {nextTaskId} |->
                             IF i = nextTaskId THEN NewTask(task_data, user_id, now)
                             ELSE tasks[i]]
                     ELSE tasks

create_task(task_data, user_id) ==
    /\ nextTaskId <= MaxTasks
    /\ CreateEffect(task_data, user_id)
    /\ \E tzinfo \in LoadedTzinfo :
          last' = [op |-> "create_task", user_id |-> user_id, task_id |-> nextTaskId,
                   result |-> IF /\ ~ScoreRaises(task_data)
                                 /\ ParentKeyHolds(tasks, task_data)
                                 /\ ~ResponseRaises(NewTask(task_data, user_id, now),
                                                    tzinfo)
                              THEN "TaskResponse" ELSE "raised"]
    /\ UNCHANGED <<deps, nextDepId, now, requests, background, job_run>>

get_task(task_id, user_id) ==
    /\ \E tzinfo \in LoadedTzinfo :
          last' = [op |-> "get_task", user_id |-> user_id, task_id |-> task_id,
                   result |-> IF ~OwnedTask(tasks, task_id, user_id) THEN "None"
                              ELSE IF ResponseRaises(tasks[task_id], tzinfo)
                              THEN "raised" ELSE "TaskResponse"]
    /\ UNCHANGED <<tasks, deps, nextTaskId, nextDepId, now, requests, background, job_run>>

\* ---- Dependency Graph Manager -----------------------------------------

\* the rows of task_dependencies that reference a task, through either foreign key
RowsOf(D, task_id) ==
    {d \in BagToSet(D) : d.task_id = task_id \/ d.depends_on_id = task_id}

\* Session.delete(task) then commit.  Task.dependencies and Task.dependents carry no
\* delete cascade, so the unit of work blanks the foreign key of every referencing
\* row, and both columns are NOT NULL: the flush is refused and rolled back.
\* Task.subtasks (the backref of parent_task) is nullable and is blanked.
DeleteRefused(D, task_id) == RowsOf(D, task_id) # {}

DeleteRow(T, task_id) ==
    [i \in DOMAIN T \ {task_id} |->
        IF T[i].parent_task_id = task_id
        THEN [T[i] EXCEPT !.parent_task_id = NoneInt] ELSE T[i]]

delete_task(task_id, user_id) ==
    /\ tasks' = IF OwnedTask(tasks, task_id, user_id) /\ ~DeleteRefused(deps, task_id)
                THEN DeleteRow(tasks, task_id) ELSE tasks
    /\ last' = [op |-> "delete_task", user_id |-> user_id, task_id |-> task_id,
                result |-> IF ~OwnedTask(tasks, task_id, user_id) THEN "False"
                           ELSE IF DeleteRefused(deps, task_id) THEN "raised"
                           ELSE "True"]
    /\ UNCHANGED <<deps, nextTaskId, nextDepId, now, requests, background, job_run>>

\* the list get_task_dependencies returns, as the bag of the rows it is built from
DependencyList(T, D, task_id, user_id) ==
    IF ~OwnedTask(T, task_id, user_id) THEN EmptyBag
    ELSE [d \in {e \in BagToSet(D) : e.task_id = task_id} |-> D[d]]

get_task_dependencies(task_id, user_id) ==
    /\ last' = [op |-> "get_task_dependencies", user_id |-> user_id,
                task_id |-> task_id,
                result |-> DependencyList(tasks, deps, task_id, user_id)]
    /\ UNCHANGED <<tasks, deps, nextTaskId, nextDepId, now, requests, background, job_run>>

\* tasks_query of add_task_dependency: the rows with id IN (task_id, depends_on_id)
\* that belong to the user
VerifiedTasks(T, task_id, depends_on_id, user_id) ==
    {i \in {task_id, depends_on_id} : OwnedTask(T, i, user_id)}

\* mutant: the ownership filter Task.user_id == user_id left out of tasks_query
BothOwned_AnyOwner(T, task_id, depends_on_id, user_id) ==
    Cardinality({task_id, depends_on_id} \cap DOMAIN T) = 2

\* mutant: "every listed id was found" in place of "two rows were found"
BothOwned_EachFound(T, task_id, depends_on_id, user_id) ==
    \A i \in {task_id, depends_on_id} : OwnedTask(T, i, user_id)

\* len(tasks) == 2
BothOwned(T, task_id, depends_on_id, user_id) ==
    Cardinality(VerifiedTasks(T, task_id, depends_on_id, user_id)) = 2

\* reverse_query of _would_create_circular_dependency
ReverseRows(D, task_id, depends_on_id) ==
    [d \in {e \in BagToSet(D) : e.task_id = depends_on_id /\ e.depends_on_id = task_id}
       |-> D[d]]

\* scalar_one_or_none() raises MultipleResultsFound on two rows or more
ReverseQueryRaises(D, task_id, depends_on_id) ==
    BagCardinality(ReverseRows(D, task_id, depends_on_id)) > 1

\* mutant: the query looks for the edge itself, not for its reverse
_would_create_circular_dependency_SameDirection(D, task_id, depends_on_id) ==
    \E d \in BagToSet(D) : d.task_id = task_id /\ d.depends_on_id = depends_on_id

_would_create_circular_dependency(D, task_id, depends_on_id) ==
    BagCardinality(ReverseRows(D, task_id, depends_on_id)) >= 1

NewDependency(task_id, depends_on_id) ==
    [task_id |-> task_id, depends_on_id |-> depends_on_id,
     dependency_type |-> "finish_to_start"]

\* what add_task_dependency gives its caller
AddDependencyResult(T, D, task_id, depends_on_id, user_id) ==
    IF ~BothOwned(T, task_id, depends_on_id, user_id) THEN "None"
    ELSE IF ReverseQueryRaises(D, task_id, depends_on_id) THEN "raised"
    ELSE IF _would_create_circular_dependency(D, task_id, depends_on_id) THEN "None"
    ELSE "TaskDependency"

add_task_dependency(task_id, depends_on_id, user_id) ==
    LET result == AddDependencyResult(tasks, deps, task_id, depends_on_id, user_id)
    IN /\ result = "TaskDependency" => nextDepId <= MaxDeps
       /\ deps' = IF result = "TaskDependency"
                  THEN deps (+) SetToBag({NewDependency(task_id, depends_on_id)})
                  ELSE deps
       /\ nextDepId' = IF result = "TaskDependency" THEN nextDepId + 1 ELSE nextDepId
       /\ last' = [op |-> "add_task_dependency", user_id |-> user_id,
                   task_id |-> task_id, depends_on_id |-> depends_on_id,
                   result |-> result]
       /\ UNCHANGED <<tasks, nextTaskId, now, requests, background, job_run>>

\* the answer of POST /{task_id}/dependencies/{depends_on_id} for what the service
\* returned
DependencyResponse(result) ==
    IF result = "None"
    THEN [status_code |-> 400, detail |-> "Cannot create dependency"]
    ELSE IF result = "raised"
    THEN [status_code |-> 500, detail |-> "Failed to add dependency"]
    ELSE [status_code |-> 200, detail |-> "Dependency added successfully"]

\* ---- Task Lifecycle Service --------------------------------------------

\* the fields TaskUpdate declares; pydantic drops every other keyword
TaskUpdateFields ==
    {"title", "description", "status", "priority", "due_date", "start_date",
     "estimated_duration", "actual_duration", "tags", "category", "project"}

\* TaskUpdate(**kwargs): the fields set are the declared ones among the keywords
TaskUpdate(kwargs) == [f \in DOMAIN kwargs \cap TaskUpdateFields |-> kwargs[f]]

\* for field, value in task_update.dict(exclude_unset=True).items(): setattr(task, field, value)
SetFields(row, task_update) ==
    [f \in DOMAIN row |-> IF f \in DOMAIN task_update THEN task_update[f] ELSE row[f]]

\* "Update completion timestamp": task_update.status reads None when status is unset
CompletionTimestamp(row, task_update, t) ==
    LET status == Get(task_update, "status", NoneStr)
    IN IF status = COMPLETED /\ row.completed_at = NoneInt THEN t
       ELSE IF status # COMPLETED THEN NoneInt
       ELSE row.completed_at

UpdatedRow(row, task_update, t) ==
    LET set == SetFields(row, task_update)
    IN [set EXCEPT !.completed_at = CompletionTimestamp(set, task_update, t),
                   !.updated_at = t]

\* the commit of update_task: tasks.title is NOT NULL
UpdateRefused(row) == row.title = NoneText

\* TaskResponse(...) of _task_to_response: title, status and priority are required
ResponseInvalid(row) ==
    \/ row.title = NoneText
    \/ row.status \notin TaskStatus
    \/ row.priority \notin TaskPriority

\* mutant: the row is looked up by id alone
UpdateTarget_AnyOwner(T, task_id, user_id) == task_id \in DOMAIN T

\* the row update_task selects
UpdateTarget(T, task_id, user_id) == OwnedTask(T, task_id, user_id)

UpdateResult(T, task_id, task_update, user_id, t, tzinfo) ==
    IF ~UpdateTarget(T, task_id, user_id) THEN "None"
    ELSE IF UpdateRefused(UpdatedRow(T[task_id], task_update, t)) THEN "raised"
    ELSE IF ResponseInvalid(UpdatedRow(T[task_id], task_update, t)) THEN "raised"
    ELSE IF ResponseRaises(UpdatedRow(T[task_id], task_update, t), tzinfo) THEN "raised"
    ELSE "TaskResponse"

UpdateEffect(T, task_id, task_update, user_id, t) ==
    IF /\ UpdateTarget(T, task_id, user_id)
       /\ ~UpdateRefused(UpdatedRow(T[task_id], task_update, t))
    THEN [T EXCEPT ![task_id] = UpdatedRow(T[task_id], task_update, t)]
    ELSE T

update_task(task_id, task_update, user_id) ==
    /\ tasks' = UpdateEffect(tasks, task_id, task_update, user_id, now)
    /\ \E tzinfo \in LoadedTzinfo :
          last' = [op |-> "update_task", user_id |-> user_id, task_id |-> task_id,
                   result |-> UpdateResult(tasks, task_id, task_update, user_id, now,
                                           tzinfo)]
    /\ UNCHANGED <<deps, nextTaskId, nextDepId, now, requests, background, job_run>>

\* TaskUpdate(status=TaskStatus.COMPLETED, completed_at=datetime.utcnow())
CompleteUpdate(t) == TaskUpdate([status |-> COMPLETED, completed_at |-> t])

complete_task(task_id, user_id) ==
    /\ tasks' = UpdateEffect(tasks, task_id, CompleteUpdate(now), user_id, now)
    /\ \E tzinfo \in LoadedTzinfo :
          last' = [op |-> "complete_task", user_id |-> user_id, task_id |-> task_id,
                   result |-> UpdateResult(tasks, task_id, CompleteUpdate(now), user_id,
                                           now, tzinfo)]
    /\ UNCHANGED <<deps, nextTaskId, nextDepId, now, requests, background, job_run>>

\* ---- AI completion client, schedule optimisation ----------------------

\* the datetime fields of TaskResponse.dict()
DatetimeFields == {"due_date", "created_at", "updated_at", "completed_at",
                   "ai_suggested_time_slot"}

\* json.dumps(context_data, indent=2), run before the try block of
\* generate_schedule_optimization: a datetime value is not JSON serializable
JsonDumpsRaises(task_dict) ==
    \E f \in DatetimeFields \cap DOMAIN task_dict : task_dict[f] # NoneInt

\* what the completion endpoint may answer to a schedule request
ScheduleAnswers ==
    {[kind |-> "http_error"],
     [kind |-> "not_json"],
     [kind |-> "array"],
     [kind |-> "object", value |-> [optimized_schedule |-> <<>>]],
     [kind |-> "object", value |-> [suggested_time_slot |-> 2]]}

\* GrokService.generate_schedule_optimization: every failure inside the try block
\* gives the fallback dict; "array" stands for JSON that is no object
generate_schedule_optimization(answer) ==
    IF answer.kind \in {"http_error", "not_json"}
    THEN [kind |-> "object", value |-> [error |-> "Optimization failed", fallback |-> TRUE]]
    ELSE answer

\* mutant: the exception raised in the call of the AI layer does not end the body
OptimizationApplies_DespiteFailure(T, task_id, user_id, answer) ==
    /\ OwnedTask(T, task_id, user_id)
    /\ generate_schedule_optimization(answer).kind = "object"
    /\ Get(generate_schedule_optimization(answer).value, "suggested_time_slot", NoneInt) # NoneInt

\* the TaskUpdate optimize_task_scheduling applies, or no update at all
\* (the whole body sits in try / except Exception)
OptimizationApplies(T, task_id, user_id, answer) ==
    /\ OwnedTask(T, task_id, user_id)
    /\ ~JsonDumpsRaises(T[task_id])
    /\ generate_schedule_optimization(answer).kind = "object"
    /\ Get(generate_schedule_optimization(answer).value, "suggested_time_slot", NoneInt) # NoneInt

SuggestionUpdate(answer) ==
    TaskUpdate([ai_suggested_time_slot |->
                  generate_schedule_optimization(answer).value.suggested_time_slot])

optimize_task_scheduling(task_id, user_id, answer) ==
    /\ tasks' = IF OptimizationApplies(tasks, task_id, user_id, answer)
                THEN UpdateEffect(tasks, task_id, SuggestionUpdate(answer), user_id, now)
                ELSE tasks
    /\ last' = [op |-> "optimize_task_scheduling", user_id |-> user_id,
                task_id |-> task_id, result |-> "None", answer |-> answer]
    /\ UNCHANGED <<deps, nextTaskId, nextDepId, now, requests, background, job_run>>

\* ---- the dependency graph: tasks created and deleted, edges added, one
\* ---- request at a time ---------------------------------------------------

\* no run of optimize_user_schedules has started. pc is the job's position, run
\* counts the runs begun, queue holds the users the loop has yet to visit, dirty the
\* attribute changes the session holds unflushed, results what became of each
\* visited user, answers what the completion endpoint answered for each, first
\* the slots the first finished run left, and before the slots the run found.
NoJob == [pc |-> "idle", run |-> 0, query |-> "none", queue |-> <<>>, dirty |-> <<>>,
          optimized_count |-> 0, total_users |-> 0, results |-> <<>>,
          answers |-> <<>>, first |-> <<>>, before |-> <<>>]

NoCall == [op |-> "none", user_id |-> NoneInt, task_id |-> NoneInt, result |-> "None"]

Init ==
    /\ tasks = <<>>
    /\ deps = EmptyBag
    /\ nextTaskId = 1
    /\ nextDepId = 1
    /\ now = 1
    /\ requests = <<>>
    /\ background = <<>>
    /\ job_run = NoJob
    /\ last = NoCall

Next ==
    \/ \E u \in Users : create_task(DefaultCreate, u)
    \/ \E i \in TaskIds, u \in Users : delete_task(i, u)
    \/ \E i \in TaskIds, j \in TaskIds, u \in Users : add_task_dependency(i, j, u)

Spec == Init /\ [][Next]_vars

\* ---- the lifecycle operations, one request at a time -------------------

EmptyUpdate == TaskUpdate(<<>>)

\* partial updates a client sends: no field at all, or a status
Updates == {EmptyUpdate} \cup {TaskUpdate([status |-> s]) : s \in TaskStatus}

NextLifecycle ==
    \/ \E u \in Users : nextTaskId <= MaxFewTasks /\ create_task(DefaultCreate, u)
    \/ \E i \in FewIds, u \in Users : get_task(i, u)
    \/ \E i \in FewIds, u \in Users, upd \in Updates : update_task(i, upd, u)
    \/ \E i \in FewIds, u \in Users : complete_task(i, u)
    \/ \E i \in FewIds, u \in Users : delete_task(i, u)
    \/ \E i \in FewIds, u \in Users : get_task_dependencies(i, u)
    \/ \E i \in FewIds, j \in FewIds, u \in Users :
          add_task_dependency(i, j, u)
    \/ \E i \in FewIds, u \in Users, a \in ScheduleAnswers :
          optimize_task_scheduling(i, u, a)

SpecLifecycle == Init /\ [][NextLifecycle]_vars

\* ---- the owner-scoped operations, called by either user on any id --------

\* the update a client sends in these runs: a change of status
ScopedUpdates == {TaskUpdate([status |-> IN_PROGRESS])}

NextScoped ==
    \/ \E u \in Users : nextTaskId <= MaxFewTasks /\ create_task(DefaultCreate, u)
    \/ \E i \in FewIds, u \in Users : get_task(i, u)
    \/ \E i \in FewIds, u \in Users, upd \in ScopedUpdates : update_task(i, upd, u)
    \/ \E i \in FewIds, u \in Users : complete_task(i, u)
    \/ \E i \in FewIds, u \in Users : delete_task(i, u)
    \/ \E i \in FewIds, u \in Users : get_task_dependencies(i, u)
    \/ \E i \in FewIds, j \in FewIds, u \in Users :
          nextDepId <= MaxFewDeps /\ add_task_dependency(i, j, u)

SpecScoped == Init /\ [][NextScoped]_vars

\* ---- update_task over payloads that set a field to null ------------------

\* partial updates that name one field: status, priority or title set to null
\* (each is Optional in TaskUpdate, and dict(exclude_unset=True) keeps a field
\* that was set to None), and a status and a priority set to a value
FieldUpdates ==
    {TaskUpdate([status |-> NoneStr]), TaskUpdate([priority |-> NoneStr]),
     TaskUpdate([title |-> NoneText]), TaskUpdate([status |-> IN_PROGRESS]),
     TaskUpdate([priority |-> "high"])}

NextPayloads ==
    \/ \E u \in Users : nextTaskId <= MaxFewTasks /\ create_task(DefaultCreate, u)
    \/ \E i \in FewIds, u \in Users, upd \in FieldUpdates : update_task(i, upd, u)

SpecPayloads == Init /\ [][NextPayloads]_vars

\* ---- create_task over the payloads the AI scores read --------------------

\* due dates: none, 30 hours ago, and 24, 36, 84, 180 and 200 hours from now
DueDates == {NoneInt, -29, 25, 37, 85, 181, 201}

\* estimated durations in minutes: none, and one in each band of the complexity score
Durations == {NoneInt, 61, 241}

\* descriptions: none, and one longer than 500 characters
Descriptions == {NoneText, Text(501, "d")}

\* ai_generated payloads; a due date 36 hours away is also given with a UTC offset
ScoreCreates ==
    {[title |-> Text(1, "t"), description |-> desc, priority |-> p,
      due_date |-> due, estimated_duration |-> dur, parent_task_id |-> NoneInt,
      ai_generated |-> TRUE, ai_context |-> <<>>, tzinfo |-> tz] :
        desc \in Descriptions, p \in TaskPriority, dur \in Durations,
        due \in DueDates, tz \in {NoneStr}}
    \cup
    {[title |-> Text(1, "t"), description |-> NoneText, priority |-> p,
      due_date |-> 37, estimated_duration |-> NoneInt, parent_task_id |-> NoneInt,
      ai_generated |-> TRUE, ai_context |-> <<>>, tzinfo |-> "UTC"] :
        p \in TaskPriority}

\* the row was created from this payload
CreatedFrom(row, task_data) ==
    /\ row.priority = task_data.priority
    /\ row.due_date = task_data.due_date
    /\ row.estimated_duration = task_data.estimated_duration
    /\ row.description = task_data.description

\* a client sends a payload, and may send the same payload again
NextScores ==
    \E task_data \in ScoreCreates, u \in Users :
        /\ nextTaskId <= MaxScored
        /\ \A i \in DOMAIN tasks : CreatedFrom(tasks[i], task_data)
        /\ create_task(task_data, u)

SpecScores == Init /\ [][NextScores]_vars

\* ---- optimize_task_scheduling on tasks that are pending or completed ------

NextOptimize ==
    \/ \E u \in Users : nextTaskId <= MaxFewTasks /\ create_task(DefaultCreate, u)
    \/ \E i \in FewIds, u \in Users : complete_task(i, u)
    \/ \E i \in FewIds, u \in Users, a \in ScheduleAnswers :
          optimize_task_scheduling(i, u, a)

SpecOptimize == Init /\ [][NextOptimize]_vars

\* ---- Celery task optimize_user_schedules ---------------------------------
\* One run opens one AsyncSession (autoflush off, expire_on_commit off) and walks
\* the users its first query selects. A user's turn through the loop body is one
\* step here, and no request changes a task once a run has begun.

\* The query for the users to visit. User.ai_preferences is a column of the
\* generic JSON type, whose comparator has no attribute astext (the PostgreSQL
\* JSON type has one): building the filter raises AttributeError, which the outer
\* except logs and raises again. What the query answers under the PostgreSQL
\* type, every user (is_active and auto_scheduling default to True), is kept as a
\* second outcome, so that the loop is followed as well.
TargetUserQuery == {"raised", "users"}

\* result.scalars().all(): the users, by id
RECURSIVE TargetUsers(_)
TargetUsers(U) ==
    IF U = {} THEN <<>>
    ELSE LET u == CHOOSE x \in U : \A y \in U : x <= y
         IN <<u>> \o TargetUsers(U \ {u})

\* tasks_query: the user's pending or in-progress tasks that have a due date
\* (limit(20) lies beyond the tasks a user has here)
EligibleTasks(T, user_id) ==
    {i \in DOMAIN T : /\ T[i].user_id = user_id
                      /\ T[i].status \in {PENDING, IN_PROGRESS}
                      /\ T[i].due_date # NoneInt}

\* tasks_data: task.priority.value raises AttributeError on a priority that is NULL
TasksDataRaises(T, ids) == \E i \in ids : T[i].priority \notin TaskPriority

\* a suggested_time that datetime.fromisoformat parses, as the hour it names
SlotTime == 3
\* a suggested_time that datetime.fromisoformat refuses
BadTime == -1

Suggestion(task_id, suggested_time) ==
    [task_id |-> task_id, suggested_time |-> suggested_time]

\* values of "optimized_schedule" in an answer: no suggestion, one for a task, or
\* one for a task followed by one that does not parse
Schedules ==
    {<<>>} \cup {<<Suggestion(i, SlotTime)>> : i \in FewIds}
           \cup {<<Suggestion(i, SlotTime), Suggestion(j, BadTime)>> :
                    i \in FewIds, j \in FewIds}

\* what the completion endpoint may answer to the job's schedule request
JobAnswers ==
    {[kind |-> "http_error"], [kind |-> "not_json"], [kind |-> "array"]}
    \cup {[kind |-> "object", value |-> [optimized_schedule |-> s]] : s \in Schedules}

\* the turn of a user for whom no request was sent
NotCalled == [kind |-> "not_called"]

\* "Apply optimizations": the suggestions are applied in order to the Task
\* objects of the session; one that does not parse raises and leaves the
\* earlier ones set
RECURSIVE ApplySuggestions(_, _, _, _)
ApplySuggestions(schedule, k, eligible, dirty) ==
    IF k > Len(schedule) THEN [dirty |-> dirty, raised |-> FALSE]
    ELSE LET task_id == schedule[k].task_id
             suggested_time == schedule[k].suggested_time
         IN IF task_id # NoneInt /\ suggested_time # NoneInt /\ task_id \in eligible
            THEN IF suggested_time = BadTime
                 THEN [dirty |-> dirty, raised |-> TRUE]
                 ELSE ApplySuggestions(schedule, k + 1, eligible,
                        [i \in DOMAIN dirty \cup {task_id} |->
                           IF i = task_id THEN suggested_time ELSE dirty[i]])
            ELSE ApplySuggestions(schedule, k + 1, eligible, dirty)

\* mutant: the commit at the end of a user's turn writes nothing
CommitDirty_Deferred(T, dirty, t) == T

\* mutant: a flushed suggestion is added to the slot the row holds
CommitDirty_Accumulating(T, dirty, t) ==
    [i \in DOMAIN T |->
       IF i \in DOMAIN dirty
       THEN [T[i] EXCEPT !.ai_suggested_time_slot = @ + dirty[i], !.updated_at = t]
       ELSE T[i]]

\* db.commit(): every attribute of the session that differs from its row is
\* written; Task.updated_at has onupdate=func.now()
CommitDirty(T, dirty, t) ==
    [i \in DOMAIN T |->
       IF i \in DOMAIN dirty /\ dirty[i] # T[i].ai_suggested_time_slot
       THEN [T[i] EXCEPT !.ai_suggested_time_slot = dirty[i], !.updated_at = t]
       ELSE T[i]]

\* whether the loop body reaches grok_service.generate_schedule_optimization
RequestSent(T, user_id) ==
    EligibleTasks(T, user_id) # {} /\ ~TasksDataRaises(T, EligibleTasks(T, user_id))

\* the body of "for user in users": what became of the user, what the session
\* holds unflushed afterwards, and the table
UserTurn(T, dirty, user_id, answer, t) ==
    LET eligible == EligibleTasks(T, user_id)
        optimization == generate_schedule_optimization(answer)
        applied == ApplySuggestions(Get(optimization.value, "optimized_schedule", <<>>),
                                    1, eligible, dirty)
    IN IF eligible = {}
       THEN [result |-> "skipped", dirty |-> dirty, tasks |-> T]
       ELSE IF TasksDataRaises(T, eligible) \/ optimization.kind # "object"
       THEN [result |-> "failed", dirty |-> dirty, tasks |-> T]
       ELSE IF applied.raised
       THEN [result |-> "failed", dirty |-> applied.dirty, tasks |-> T]
       ELSE [result |-> "processed", dirty |-> <<>>,
             tasks |-> CommitDirty(T, applied.dirty, t)]

\* the slot of every task
Slots(T) == [i \in DOMAIN T |-> T[i].ai_suggested_time_slot]

\* a run begins: the session opens and the users are queried
_optimize_schedules_query(outcome) ==
    /\ job_run.pc \in {"idle", "done", "raised"}
    /\ job_run.run < MaxRuns
    /\ job_run.query \in {"none", outcome}
    /\ job_run' =
         IF outcome = "raised"
         THEN [job_run EXCEPT !.pc = "raised", !.run = @ + 1, !.query = outcome,
                              !.first = IF job_run.run = 0 THEN Slots(tasks) ELSE @,
                              !.before = Slots(tasks)]
         ELSE [job_run EXCEPT !.pc = "loop", !.run = @ + 1, !.query = outcome,
                              !.queue = TargetUsers(Users), !.dirty = <<>>,
                              !.optimized_count = 0,
                              !.total_users = Len(TargetUsers(Users)),
                              !.results = <<>>, !.before = Slots(tasks)]
    /\ last' = [op |-> "optimize_user_schedules", user_id |-> NoneInt,
                task_id |-> NoneInt,
                result |-> IF outcome = "raised" THEN "raised" ELSE "running"]
    /\ UNCHANGED <<tasks, deps, nextTaskId, nextDepId, now, requests, background>>

\* the loop body for the next user; a later run is given the answers of the first
_optimize_schedules_user(answer) ==
    /\ job_run.pc = "loop"
    /\ job_run.queue # <<>>
    /\ LET user_id == Head(job_run.queue)
           turn == UserTurn(tasks, job_run.dirty, user_id, answer, now)
           sent == IF RequestSent(tasks, user_id) THEN answer ELSE NotCalled
       IN /\ job_run.run > 1 => job_run.answers[user_id] \in {answer, NotCalled}
          /\ tasks' = turn.tasks
          /\ job_run' =
               [job_run EXCEPT
                  !.queue = Tail(@),
                  !.dirty = turn.dirty,
                  !.optimized_count = IF turn.result = "processed" THEN @ + 1 ELSE @,
                  !.results = [u \in DOMAIN @ \cup {user_id} |->
                                 IF u = user_id THEN turn.result ELSE @[u]],
                  !.answers = IF job_run.run > 1 THEN @
                              ELSE [u \in DOMAIN @ \cup {user_id} |->
                                      IF u = user_id THEN sent ELSE @[u]]]
    /\ UNCHANGED <<deps, nextTaskId, nextDepId, now, requests, background, last>>

\* the loop is over: the totals are logged and the session closes, dropping what
\* it holds unflushed
_optimize_schedules_end ==
    /\ job_run.pc = "loop"
    /\ job_run.queue = <<>>
    /\ job_run' = [job_run EXCEPT !.pc = "done", !.dirty = <<>>,
                                  !.first = IF job_run.run = 1 THEN Slots(tasks) ELSE @]
    /\ last' = [op |-> "optimize_user_schedules", user_id |-> NoneInt,
                task_id |-> NoneInt, result |-> "None"]
    /\ UNCHANGED <<tasks, deps, nextTaskId, nextDepId, now, requests, background>>

\* the worker is terminated, or crashes, in the middle of the loop: the session
\* is gone with what it holds unflushed, and what was committed stays
_optimize_schedules_terminated ==
    /\ job_run.pc = "loop"
    /\ job_run' = [job_run EXCEPT !.pc = "terminated", !.dirty = <<>>]
    /\ last' = [op |-> "optimize_user_schedules", user_id |-> NoneInt,
                task_id |-> NoneInt, result |-> "terminated"]
    /\ UNCHANGED <<tasks, deps, nextTaskId, nextDepId, now, requests, background>>

\* a task that qualifies for the job: it has a due date
DueCreate == [DefaultCreate EXCEPT !.due_date = 30]

NextJob ==
    \/ \E u \in Users, task_data \in {DefaultCreate, DueCreate} :
          /\ job_run.pc = "idle"
          /\ nextTaskId <= MaxFewTasks
          /\ create_task(task_data, u)
    \/ \E outcome \in TargetUserQuery : _optimize_schedules_query(outcome)
    \/ \E answer \in JobAnswers : _optimize_schedules_user(answer)
    \/ _optimize_schedules_end
    \/ _optimize_schedules_terminated

SpecJob == Init /\ [][NextJob]_vars

\* ---- add_task_dependency as concurrent requests -------------------------
\* Each request runs on its own AsyncSession (get_db), at the default isolation
\* level: each of its awaits is a point where another request may run, and each
\* query reads what has been committed by then.

\* the request arrives
dep_begin(task_id, depends_on_id, user_id) ==
    /\ Len(requests) < MaxRequests
    /\ requests' = Append(requests,
                     [pc |-> "verify", task_id |-> task_id,
                      depends_on_id |-> depends_on_id, user_id |-> user_id,
                      result |-> "pending"])
    /\ UNCHANGED <<tasks, deps, nextTaskId, nextDepId, now, background, last, job_run>>

Finished(r, result) == [requests EXCEPT ![r].pc = "done", ![r].result = result]

Returned(r, result) ==
    [op |-> "add_task_dependency", user_id |-> requests[r].user_id,
     task_id |-> requests[r].task_id, depends_on_id |-> requests[r].depends_on_id,
     result |-> result]

\* await self.db.execute(tasks_query); if len(tasks) != 2: return None
dep_verify(r) ==
    /\ requests[r].pc = "verify"
    /\ IF BothOwned(tasks, requests[r].task_id, requests[r].depends_on_id,
                    requests[r].user_id)
       THEN requests' = [requests EXCEPT ![r].pc = "check"] /\ UNCHANGED last
       ELSE requests' = Finished(r, "None") /\ last' = Returned(r, "None")
    /\ UNCHANGED <<tasks, deps, nextTaskId, nextDepId, now, background, job_run>>

\* if await self._would_create_circular_dependency(task_id, depends_on_id): return None
dep_check(r) ==
    /\ requests[r].pc = "check"
    /\ IF ReverseQueryRaises(deps, requests[r].task_id, requests[r].depends_on_id)
       THEN requests' = Finished(r, "raised") /\ last' = Returned(r, "raised")
       ELSE IF _would_create_circular_dependency(deps, requests[r].task_id,
                                                 requests[r].depends_on_id)
       THEN requests' = Finished(r, "None") /\ last' = Returned(r, "None")
       ELSE requests' = [requests EXCEPT ![r].pc = "insert"] /\ UNCHANGED last
    /\ UNCHANGED <<tasks, deps, nextTaskId, nextDepId, now, background, job_run>>

\* self.db.add(dependency); await self.db.commit(); return dependency
dep_insert(r) ==
    /\ requests[r].pc = "insert"
    /\ nextDepId <= MaxDeps
    /\ deps' = deps (+) SetToBag({NewDependency(requests[r].task_id,
                                                 requests[r].depends_on_id)})
    /\ nextDepId' = nextDepId + 1
    /\ requests' = Finished(r, "TaskDependency")
    /\ last' = Returned(r, "TaskDependency")
    /\ UNCHANGED <<tasks, nextTaskId, now, background, job_run>>

NextConcurrent ==
    \/ \E u \in Users : nextTaskId <= MaxFewTasks /\ create_task(DefaultCreate, u)
    \/ \E i \in FewIds, j \in FewIds, u \in Users : dep_begin(i, j, u)
    \/ \E r \in DOMAIN requests : dep_verify(r)
    \/ \E r \in DOMAIN requests : dep_check(r)
    \/ \E r \in DOMAIN requests : dep_insert(r)

SpecConcurrent == Init /\ [][NextConcurrent]_vars

\* ---- natural-language task intake ---------------------------------------

\* task_input[:100]
TitleFallbackLen == 100
\* TaskBase.title: max_length
TitleMaxLen == 200
\* TaskBase.description: max_length
DescriptionMaxLen == 2000

Prefix(text, n) == SubSeq(text, 1, IF Len(text) < n THEN Len(text) ELSE n)

\* completion texts the endpoint may return
ProseContent == "Sure, here is the task you asked for"
ArrayContent == "[\"book flights\"]"
PlainContent == "{\"title\": \"mm\", \"priority\": \"high\"}"
SubtasksContent == "{\"title\": \"pp\", \"priority\": \"low\", \"subtasks\": [\"s\"]}"
NullPriorityContent == "{\"title\": \"nn\", \"priority\": null}"
BlankSubtaskContent == "{\"title\": \"qq\", \"subtasks\": [\"\", \"s\"]}"

Contents == {ProseContent, ArrayContent, PlainContent, SubtasksContent,
             NullPriorityContent, BlankSubtaskContent}

\* completion texts given to the parsers of EnhancedGrokService
TruncatedContent == "{\"title\": \"mm\", \"prio"
NullContent == "null"
IsoDue == "2024-01-02T03:00:00Z"
DatedContent == "{\"title\": \"dd\", \"due_date\": \"2024-01-02T03:00:00Z\"}"
VagueDateContent == "{\"title\": \"vv\", \"due_date\": \"tomorrow\"}"
TipsContent == "{\"optimized_schedule\": [], \"productivity_tips\": [\"rest\", \"plan\"]}"
InsightsContent == "{\"insights\": [{\"title\": \"ii\"}]}"
TextInsightsContent == "{\"insights\": [\"ii\"]}"

\* json.loads(content): JSONDecodeError, or the value the text denotes
json_loads(content) ==
    CASE content = ProseContent -> [ok |-> FALSE]
      [] content = ArrayContent -> [ok |-> TRUE, type |-> "list"]
      [] content = PlainContent ->
           [ok |-> TRUE, type |-> "dict",
            value |-> [title |-> Text(2, "m"), priority |-> "high"]]
      [] content = SubtasksContent ->
           [ok |-> TRUE, type |-> "dict",
            value |-> [title |-> Text(2, "p"), priority |-> "low",
                       subtasks |-> <<Text(1, "s")>>]]
      [] content = NullPriorityContent ->
           [ok |-> TRUE, type |-> "dict",
            value |-> [title |-> Text(2, "n"), priority |-> NoneStr]]
      [] content = BlankSubtaskContent ->
           [ok |-> TRUE, type |-> "dict",
            value |-> [title |-> Text(2, "q"),
                       subtasks |-> <<Text(0, "s"), Text(1, "s")>>]]
      [] content = TruncatedContent -> [ok |-> FALSE]
      [] content = NullContent -> [ok |-> TRUE, type |-> "NoneType"]
      [] content = DatedContent ->
           [ok |-> TRUE, type |-> "dict",
            value |-> [title |-> Text(2, "d"), due_date |-> IsoDue]]
      [] content = VagueDateContent ->
           [ok |-> TRUE, type |-> "dict",
            value |-> [title |-> Text(2, "v"), due_date |-> "tomorrow"]]
      [] content = TipsContent ->
           [ok |-> TRUE, type |-> "dict",
            value |-> [optimized_schedule |-> <<>>,
                       productivity_tips |-> <<"rest", "plan">>]]
      [] content = InsightsContent ->
           [ok |-> TRUE, type |-> "dict",
            value |-> [insights |-> <<[type |-> "dict",
                                       value |-> [title |-> Text(2, "i")]]>>]]
      [] content = TextInsightsContent ->
           [ok |-> TRUE, type |-> "dict",
            value |-> [insights |-> <<[type |-> "str"]>>]]

\* what a completion request may come to: httpx.HTTPError, a body without
\* "choices", a body whose "choices" is empty, or a completion text
ParseAnswers ==
    {[kind |-> "http_error"], [kind |-> "no_choices_key"], [kind |-> "empty_choices"]}
      \cup {[kind |-> "content", content |-> c] : c \in Contents}

\* the "basic fallback" of GrokService.parse_natural_language_task
FallbackTask(task_input) ==
    [title |-> Prefix(task_input, TitleFallbackLen),
     description |-> IF Len(task_input) > TitleFallbackLen THEN task_input ELSE NoneText,
     priority |-> "medium"]

\* GrokService.parse_natural_language_task: _make_request raises a plain Exception on
\* httpx.HTTPError, and only json.JSONDecodeError and KeyError are caught
parse_natural_language_task(task_input, answer) ==
    CASE answer.kind = "http_error" -> [raised |-> TRUE]
      [] answer.kind = "empty_choices" -> [raised |-> TRUE]
      [] answer.kind = "no_choices_key" ->
           [raised |-> FALSE, type |-> "dict", value |-> FallbackTask(task_input)]
      [] answer.kind = "content" /\ ~json_loads(answer.content).ok ->
           [raised |-> FALSE, type |-> "dict", value |-> FallbackTask(task_input)]
      [] OTHER ->
           [raised |-> FALSE, type |-> json_loads(answer.content).type,
            value |-> IF json_loads(answer.content).type = "dict"
                      THEN json_loads(answer.content).value ELSE <<>>]

\* TaskCreate(...) of the endpoint, before validation
IntakeCreate(parsed_data, input_text) ==
    [title |-> Get(parsed_data, "title", Prefix(input_text, TitleFallbackLen)),
     description |-> Get(parsed_data, "description", NoneText),
     priority |-> Get(parsed_data, "priority", "medium"),
     due_date |-> Get(parsed_data, "due_date", NoneInt),
     estimated_duration |-> Get(parsed_data, "estimated_duration", NoneInt),
     parent_task_id |-> NoneInt,
     ai_generated |-> TRUE,
     ai_context |-> parsed_data]

\* TaskPriority(...) raises ValueError, and TaskCreate raises ValidationError
CreateInvalid(task_data) ==
    \/ task_data.priority \notin TaskPriority
    \/ Len(task_data.title) < 1
    \/ Len(task_data.title) > TitleMaxLen
    \/ Len(task_data.description) > DescriptionMaxLen

\* the endpoint answers 500 on any exception, else with the created task
IntakeFails(input_text, answer) ==
    \/ parse_natural_language_task(input_text, answer).raised
    \/ parse_natural_language_task(input_text, answer).type # "dict"
    \/ CreateInvalid(IntakeCreate(parse_natural_language_task(input_text, answer).value,
                                  input_text))

create_task_from_natural_language(input_text, user_id, answer) ==
    LET parsed == parse_natural_language_task(input_text, answer)
        fails == IntakeFails(input_text, answer)
    IN /\ nextTaskId <= MaxTasks
       /\ IF fails
          THEN UNCHANGED <<tasks, nextTaskId, background>>
          ELSE /\ CreateEffect(IntakeCreate(parsed.value, input_text), user_id)
               /\ background' =
                    IF Get(parsed.value, "subtasks", <<>>) # <<>>
                    THEN Append(background,
                                [parent_task_id |-> nextTaskId,
                                 subtask_titles |-> parsed.value.subtasks,
                                 user_id |-> user_id])
                    ELSE background
       /\ last' = [op |-> "create_task_from_natural_language", user_id |-> user_id,
                   input_text |-> input_text, answer |-> answer,
                   task_id |-> IF fails THEN NoneInt ELSE nextTaskId,
                   result |-> IF fails THEN "HTTP 500" ELSE "TaskResponse"]
       /\ UNCHANGED <<deps, nextDepId, now, requests, job_run>>

\* TaskCreate(...) of create_subtasks
SubtaskCreate(title, parent_task_id) ==
    [DefaultCreate EXCEPT !.title = title, !.parent_task_id = parent_task_id,
                          !.priority = "medium", !.ai_generated = TRUE]

\* the rows create_subtasks adds for titles k, k+1, ...: the loop ends at the first
\* create_task that raises
RECURSIVE SubtaskRows(_, _, _, _)
SubtaskRows(T, job, k, id) ==
    IF k > Len(job.subtask_titles) THEN T
    ELSE IF \/ CreateInvalid(SubtaskCreate(job.subtask_titles[k], job.parent_task_id))
            \/ ~ParentKeyHolds(T, SubtaskCreate(job.subtask_titles[k], job.parent_task_id))
    THEN T
    ELSE SubtaskRows(
           [i \in DOMAIN T \cup {id} |->
              IF i = id
              THEN NewTask(SubtaskCreate(job.subtask_titles[k], job.parent_task_id),
                           job.user_id, now)
              ELSE T[i]],
           job, k + 1, id + 1)

\* the background task runs TaskService.create_subtasks after the response was sent
create_subtasks ==
    /\ background # <<>>
    /\ nextTaskId + Len(Head(background).subtask_titles) - 1 <= MaxTasks
    /\ tasks' = SubtaskRows(tasks, Head(background), 1, nextTaskId)
    /\ nextTaskId' = nextTaskId + Cardinality(DOMAIN tasks' \ DOMAIN tasks)
    /\ background' = Tail(background)
    /\ UNCHANGED <<deps, nextDepId, now, requests, last, job_run>>

\* the texts users type: shorter than, as long as and longer than the title prefix
InputTexts == {Text(3, "a"), Text(TitleFallbackLen, "a"), Text(TitleFallbackLen + 1, "a")}

NextIntake ==
    \/ \E x \in InputTexts, u \in Users, a \in ParseAnswers :
          create_task_from_natural_language(x, u, a)
    \/ create_subtasks

SpecIntake == Init /\ [][NextIntake]_vars

\* ---- update_task with a payload that carries no status --------------------

\* the partial updates carry no status: no field at all (what TaskUpdate(
\* ai_suggested_time_slot=...) of optimize_task_scheduling amounts to), or a title
NextPartial ==
    \/ \E u \in Users : nextTaskId <= MaxFewTasks /\ create_task(DefaultCreate, u)
    \/ \E i \in FewIds, u \in Users : complete_task(i, u)
    \/ \E i \in FewIds, u \in Users,
          upd \in {EmptyUpdate, TaskUpdate([title |-> Text(2, "n")])} :
          update_task(i, upd, u)

SpecPartial == Init /\ [][NextPartial]_vars

\* ---- update_task on the fields the complexity score reads ----------------

\* an ai_generated payload with no duration and no description
ScoredCreate == [DefaultCreate EXCEPT !.ai_generated = TRUE]

\* the partial updates set estimated_duration or description
NextRescore ==
    \/ \E u \in Users : nextTaskId <= MaxFewTasks /\ create_task(ScoredCreate, u)
    \/ \E i \in FewIds, u \in Users,
          upd \in {TaskUpdate([estimated_duration |-> 241]),
                   TaskUpdate([description |-> Text(501, "d")])} :
          update_task(i, upd, u)

SpecRescore == Init /\ [][NextRescore]_vars

\* ---- parent references: tasks created under a parent, deleted, and subtasks
\* ---- created in the background ---------------------------------------------

\* TaskCreate with parent_task_id as the client sent it
ParentCreate(parent_task_id) == [DefaultCreate EXCEPT !.parent_task_id = parent_task_id]

NextParents ==
    \/ \E u \in Users, p \in {NoneInt} \cup TaskIds : create_task(ParentCreate(p), u)
    \/ \E i \in TaskIds, u \in Users : delete_task(i, u)
    \/ \E u \in Users :
          create_task_from_natural_language(
              Text(3, "a"), u, [kind |-> "content", content |-> SubtasksContent])
    \/ create_subtasks

SpecParents == Init /\ [][NextParents]_vars

\* ---- listing and analytics: get_user_tasks, get_productivity_analytics ---

\* filters.get("due_soon"): Task.due_date <= utcnow() + timedelta(days=7); in a
\* WHERE clause Task.status != TaskStatus.COMPLETED does not match a NULL status
DueSoonCondition(row, t) ==
    /\ row.due_date # NoneInt
    /\ row.due_date <= t + 7 * 24
    /\ row.status # NoneStr /\ row.status # COMPLETED

\* filters.get("overdue"): Task.due_date < utcnow()
OverdueCondition(row, t) ==
    /\ row.due_date # NoneInt
    /\ row.due_date < t
    /\ row.status # NoneStr /\ row.status # COMPLETED

\* and_(*conditions) over the filters that are set (category, project and search
\* read columns this model does not carry)
FilterMatches(row, filters, t) ==
    /\ (filters.status # NoneStr => row.status = filters.status)
    /\ (filters.priority # NoneStr => row.priority = filters.priority)
    /\ (filters.due_soon => DueSoonCondition(row, t))
    /\ (filters.overdue => OverdueCondition(row, t))

\* the rows of the page, for skip = 0 and a limit no smaller than the table (the
\* order of the page is not modelled)
SelectedTasks(T, user_id, filters, t) ==
    {i \in DOMAIN T : T[i].user_id = user_id /\ FilterMatches(T[i], filters, t)}

\* get_user_tasks: each selected row goes through _task_to_response
get_user_tasks(user_id, filters, tzinfo) ==
    LET selected == SelectedTasks(tasks, user_id, filters, now)
        raises == \E i \in selected : ResponseRaises(tasks[i], tzinfo)
    IN /\ last' = [op |-> "get_user_tasks", user_id |-> user_id, task_id |-> NoneInt,
                   filters |-> filters,
                   result |-> IF raises
                              THEN [raised |-> TRUE, tasks |-> {}, total |-> 0]
                              ELSE [raised |-> FALSE, tasks |-> selected,
                                    total |-> Cardinality(selected)]]
       /\ UNCHANGED <<tasks, deps, nextTaskId, nextDepId, now, requests, background,
                      job_run>>

\* Task.created_at >= utcnow() - timedelta(days=days)
InWindow(T, user_id, days, t) ==
    {i \in DOMAIN T : T[i].user_id = user_id /\ T[i].created_at >= t - days * 24}

\* completed_tasks / total_tasks * 100, as the fraction it is
CompletionRate(completed, total) ==
    IF total > 0 THEN [num |-> completed * 100, den |-> total]
    ELSE [num |-> 0, den |-> 1]

\* `t.due_date and t.due_date < datetime.utcnow() and ...` of the overdue count:
\* the comparison is made for every row of the window that has a due date, and
\* raises as the one of _task_to_response does
get_productivity_analytics(user_id, days, tzinfo) ==
    LET window == InWindow(tasks, user_id, days, now)
        completed == {i \in window : tasks[i].status = COMPLETED}
        overdue == {i \in window : /\ tasks[i].due_date # NoneInt
                                    /\ tasks[i].due_date < now
                                    /\ tasks[i].status # COMPLETED}
    IN /\ last' = [op |-> "get_productivity_analytics", user_id |-> user_id,
                   task_id |-> NoneInt,
                   result |-> IF \E i \in window : ResponseRaises(tasks[i], tzinfo)
                              THEN [raised |-> TRUE]
                              ELSE [raised |-> FALSE,
                                    total_tasks |-> Cardinality(window),
                                    completed_tasks |-> Cardinality(completed),
                                    pending_tasks |-> Cardinality(window)
                                                        - Cardinality(completed),
                                    overdue_tasks |-> Cardinality(overdue),
                                    completion_rate |->
                                        CompletionRate(Cardinality(completed),
                                                       Cardinality(window)),
                                    period_days |-> days]]
       /\ UNCHANGED <<tasks, deps, nextTaskId, nextDepId, now, requests, background,
                      job_run>>

\* payloads with due dates around the two limits: none, an hour ago, now, in a
\* week to the hour, an hour after that
ReportCreates ==
    {[DefaultCreate EXCEPT !.due_date = due] : due \in {NoneInt, -1, 1, 169, 170}}

\* the filters dict of the endpoint with overdue, due_soon or neither set
NoFilter == [status |-> NoneStr, priority |-> NoneStr, due_soon |-> FALSE,
             overdue |-> FALSE]
OverdueFilter == [NoFilter EXCEPT !.overdue = TRUE]
DueSoonFilter == [NoFilter EXCEPT !.due_soon = TRUE]

NextReports ==
    \/ \E u \in Users, task_data \in ReportCreates :
          nextTaskId <= MaxFewTasks /\ create_task(task_data, u)
    \/ \E i \in FewIds, u \in Users : complete_task(i, u)
    \/ \E u \in Users, f \in {NoFilter, OverdueFilter, DueSoonFilter},
          tzinfo \in LoadedTzinfo :
          get_user_tasks(u, f, tzinfo)
    \/ \E u \in Users, days \in {1, 30}, tzinfo \in LoadedTzinfo :
          get_productivity_analytics(u, days, tzinfo)

SpecReports == Init /\ [][NextReports]_vars

\* ---- the parsers of EnhancedGrokService -----------------------------------

\* what a completion request of EnhancedGrokService may come to
EnhancedAnswers ==
    {[kind |-> "http_error"], [kind |-> "no_choices_key"], [kind |-> "empty_choices"]}
      \cup {[kind |-> "content", content |-> c] :
               c \in Contents \cup {TruncatedContent, NullContent, DatedContent,
                                    VagueDateContent, TipsContent, InsightsContent,
                                    TextInsightsContent}}

\* the exception raised in a try block up to `.get` on the decoded value, "none"
\* when there is none: _make_request raises a plain Exception on httpx.HTTPError,
\* response["choices"][0] raises KeyError or IndexError, json.loads raises
\* JSONDecodeError, and a decoded value that is no dict has no `.get`
ResponseFailure(answer) ==
    CASE answer.kind = "http_error" -> "Exception"
      [] answer.kind = "no_choices_key" -> "KeyError"
      [] answer.kind = "empty_choices" -> "IndexError"
      [] ~json_loads(answer.content).ok -> "JSONDecodeError"
      [] json_loads(answer.content).type # "dict" -> "AttributeError"
      [] OTHER -> "none"

\* mutant: only the exceptions GrokService catches are caught
Caught_DecodeErrorOnly(failure) == failure \in {"JSONDecodeError", "KeyError"}

\* except Exception as e
Caught(failure) ==
    failure \in {"Exception", "KeyError", "IndexError", "JSONDecodeError",
                 "AttributeError", "TypeError"}

\* what a parser returns: the value built from the answer, the fallback when the
\* failure is caught, and the exception otherwise
Outcome(failure, built, fallback) ==
    IF failure = "none" THEN [raised |-> FALSE, value |-> built]
    ELSE IF Caught(failure) THEN [raised |-> FALSE, value |-> fallback]
    ELSE [raised |-> TRUE]

\* _parse_datetime: None for no string, the time an ISO string denotes (IsoDue
\* denotes SlotTime on the clock of the model), None for a string in no known format
_parse_datetime(date_str) ==
    IF date_str = NoneStr THEN NoneInt
    ELSE IF date_str = IsoDue THEN SlotTime
    ELSE NoneInt

\* TaskParsing(...) built from the decoded object
ParsedTask(parsed_data, task_input) ==
    [title |-> Get(parsed_data, "title", Prefix(task_input, TitleFallbackLen)),
     description |-> Get(parsed_data, "description", NoneText),
     priority |-> Get(parsed_data, "priority", "medium"),
     due_date |-> _parse_datetime(Get(parsed_data, "due_date", NoneStr)),
     estimated_duration |-> Get(parsed_data, "estimated_duration", NoneInt),
     subtasks |-> Get(parsed_data, "subtasks", <<>>),
     ai_confidence |-> Get(parsed_data, "confidence", "0.8"),
     reasoning |-> Get(parsed_data, "reasoning", "AI parsed task from natural language")]

\* the "basic fallback" TaskParsing (subtasks keeps the dataclass default None)
FallbackParsing(task_input) ==
    [title |-> Prefix(task_input, TitleFallbackLen),
     description |-> IF Len(task_input) > TitleFallbackLen THEN task_input ELSE NoneText,
     priority |-> "medium",
     due_date |-> NoneInt,
     estimated_duration |-> NoneInt,
     subtasks |-> NoneText,
     ai_confidence |-> "0.3",
     reasoning |-> "Fallback parsing due to AI service error"]

\* the decoded object of an answer that did not fail
Decoded(answer) ==
    IF ResponseFailure(answer) = "none" THEN json_loads(answer.content).value ELSE <<>>

Enhanced_parse_natural_language_task(task_input, user_id, answer) ==
    /\ last' = [op |-> "parse_natural_language_task", user_id |-> user_id,
                task_id |-> NoneInt, input_text |-> task_input, answer |-> answer,
                result |-> Outcome(ResponseFailure(answer),
                                   ParsedTask(Decoded(answer), task_input),
                                   FallbackParsing(task_input))]
    /\ UNCHANGED <<tasks, deps, nextTaskId, nextDepId, now, requests, background,
                   job_run>>

\* ScheduleOptimization(...) built from the decoded object
BuiltOptimization(optimization_data) ==
    [optimized_schedule |-> Get(optimization_data, "optimized_schedule", <<>>),
     conflicts_resolved |-> Get(optimization_data, "conflicts_resolved", <<>>),
     productivity_tips |-> Get(optimization_data, "productivity_tips", <<>>),
     focus_blocks |-> Get(optimization_data, "focus_blocks", <<>>),
     optimization_score |-> Get(optimization_data, "optimization_score", "0.0"),
     reasoning |-> Get(optimization_data, "reasoning",
                       "AI-generated schedule optimization")]

FallbackOptimization ==
    [optimized_schedule |-> <<>>,
     conflicts_resolved |-> <<>>,
     productivity_tips |-> <<"Unable to generate optimization at this time">>,
     focus_blocks |-> <<>>,
     optimization_score |-> "0.0",
     reasoning |-> "Optimization failed due to service error"]

\* the tasks handed to a request: none, or a TaskResponse.dict() with its datetimes
ContextTasks == {<<>>, <<[title |-> Text(1, "t"), created_at |-> 1]>>}

\* json.dumps(context_data, indent=2) runs while the messages are built, before
\* the try block: no request is sent when a task carries a datetime
Enhanced_generate_schedule_optimization(user_id, context_tasks, answer) ==
    /\ LET raises == \E k \in DOMAIN context_tasks : JsonDumpsRaises(context_tasks[k])
       IN last' = [op |-> "generate_schedule_optimization", user_id |-> user_id,
                   task_id |-> NoneInt,
                   answer |-> IF raises THEN NotCalled ELSE answer,
                   result |-> IF raises THEN [raised |-> TRUE]
                              ELSE Outcome(ResponseFailure(answer),
                                           BuiltOptimization(Decoded(answer)),
                                           FallbackOptimization)]
    /\ UNCHANGED <<tasks, deps, nextTaskId, nextDepId, now, requests, background,
                   job_run>>

\* for insight_data in insights_data.get("insights", []): an entry that is no
\* dict has no `.get`
InsightsFailure(answer) ==
    IF ResponseFailure(answer) # "none" THEN ResponseFailure(answer)
    ELSE IF \E k \in DOMAIN Get(Decoded(answer), "insights", <<>>) :
               Decoded(answer).insights[k].type # "dict"
    THEN "AttributeError"
    ELSE "none"

\* ProductivityInsight(...) built from an entry
BuiltInsight(insight_data) ==
    [type |-> Get(insight_data, "type", "general"),
     title |-> Get(insight_data, "title", NoneText),
     description |-> Get(insight_data, "description", NoneText),
     impact_score |-> Get(insight_data, "impact_score", "0.0"),
     confidence |-> Get(insight_data, "confidence", "0.0")]

BuiltInsights(insights_data) ==
    [k \in DOMAIN Get(insights_data, "insights", <<>>) |->
        BuiltInsight(Get(insights_data.insights[k], "value", <<>>))]

analyze_productivity_patterns(user_id, answer) ==
    /\ last' = [op |-> "analyze_productivity_patterns", user_id |-> user_id,
                task_id |-> NoneInt, answer |-> answer,
                result |-> Outcome(InsightsFailure(answer),
                                   BuiltInsights(Decoded(answer)), <<>>)]
    /\ UNCHANGED <<tasks, deps, nextTaskId, nextDepId, now, requests, background,
                   job_run>>

NextParsers ==
    \/ \E x \in InputTexts, u \in Users, a \in EnhancedAnswers :
          Enhanced_parse_natural_language_task(x, u, a)
    \/ \E u \in Users, c \in ContextTasks, a \in EnhancedAnswers :
          Enhanced_generate_schedule_optimization(u, c, a)
    \/ \E u \in Users, a \in EnhancedAnswers : analyze_productivity_patterns(u, a)

SpecParsers == Init /\ [][NextParsers]_vars

\* ---- claims about the dependency graph (under Spec) --------------------

\* the edges as pairs, and the pairs joined by a path of edges
EdgePairs(D) == {<<d.task_id, d.depends_on_id>> : d \in BagToSet(D)}

RECURSIVE PathPairs(_, _)
PathPairs(R, n) ==
    IF n = 0 THEN R
    ELSE PathPairs(R \cup {p \in TaskIds \X TaskIds :
                              \E b \in TaskIds : <<p[1], b>> \in R /\ <<b, p[2]>> \in R},
                   n - 1)

OnCycle(D, i) == <<i, i>> \in PathPairs(EdgePairs(D), MaxTasks)

SameOwnerPair(T, i, j, u) ==
    /\ i \in DOMAIN T /\ j \in DOMAIN T
    /\ T[i].user_id = u /\ T[j].user_id = u

\* C1: after any sequence of add_task_dependency calls the persisted edge set is
\* acyclic: no task reaches itself along dependency edges, whatever the length of
\* the path.
C1_EdgeSetAcyclic == \A i \in TaskIds : ~OnCycle(deps, i)

\* C5: add_task_dependency succeeds only when both tasks exist and belong to the
\* caller, a call that does not succeed persists nothing, and every persisted edge
\* joins two existing tasks of one owner.
C5_EdgesWithinOneOwner ==
    /\ [](\A d \in BagToSet(deps) : \E u \in Users : SameOwnerPair(tasks, d.task_id, d.depends_on_id, u))
    /\ [][last'.op = "add_task_dependency" =>
            /\ last'.result = "TaskDependency" =>
                 SameOwnerPair(tasks, last'.task_id, last'.depends_on_id, last'.user_id)
            /\ last'.result # "TaskDependency" => deps' = deps]_vars

\* C5 witness: a call naming a task of another owner was refused while the caller's
\* own task exists.
C5_Witness ==
    /\ last.op = "add_task_dependency" /\ last.result = "None"
    /\ last.task_id # last.depends_on_id
    /\ last.task_id \in DOMAIN tasks /\ last.depends_on_id \in DOMAIN tasks
    /\ tasks[last.task_id].user_id = last.user_id
    /\ tasks[last.depends_on_id].user_id # last.user_id

\* C6: add_task_dependency(X, Y) does not succeed and leaves the edge set unchanged
\* whenever the reverse edge Y -> X is already persisted.
C6_ReverseEdgeRefused ==
    [][(/\ last'.op = "add_task_dependency"
        /\ \E d \in BagToSet(deps) : d.task_id = last'.depends_on_id /\ d.depends_on_id = last'.task_id)
       => (last'.result # "TaskDependency" /\ deps' = deps)]_vars

\* C6 witness: with A -> B and B -> C persisted, the call for C -> B returned None.
C6_Witness ==
    /\ last.op = "add_task_dependency" /\ last.result = "None"
    /\ SameOwnerPair(tasks, last.task_id, last.depends_on_id, last.user_id)
    /\ \E a \in TaskIds \ {last.task_id, last.depends_on_id} :
         /\ <<a, last.depends_on_id>> \in EdgePairs(deps)
         /\ <<last.depends_on_id, last.task_id>> \in EdgePairs(deps)

\* C7: the edge set never holds a self-loop, and add_task_dependency(X, X) returns
\* None for every task X.
C7_NoSelfLoop ==
    /\ \A d \in BagToSet(deps) : d.task_id # d.depends_on_id
    /\ (last.op = "add_task_dependency" /\ last.task_id = last.depends_on_id)
         => last.result = "None"

\* C7 witness: add_task_dependency(X, X) was called by the owner of X.
C7_Witness ==
    /\ last.op = "add_task_dependency" /\ last.task_id = last.depends_on_id
    /\ OwnedTask(tasks, last.task_id, last.user_id)
    /\ last.result = "None"

\* C8: delete_task called by the owner of a task succeeds and removes the task and
\* every edge that references it, so no edge refers to a task that is gone.
C8_DeleteCascades ==
    /\ \A d \in BagToSet(deps) : d.task_id \in DOMAIN tasks /\ d.depends_on_id \in DOMAIN tasks
    /\ (last.op = "delete_task" /\ last.result # "False")
         => /\ last.result = "True"
            /\ last.task_id \notin DOMAIN tasks
            /\ RowsOf(deps, last.task_id) = {}

\* ---- claims about the lifecycle and owner scoping (under SpecLifecycle) --

\* C3: in every reachable state a task's completed_at is set if and only if its
\* status is completed.
C3_CompletedAtIffCompleted ==
    \A i \in DOMAIN tasks :
        (tasks[i].completed_at # NoneInt) <=> (tasks[i].status = COMPLETED)

ScopedOps == {"get_task", "update_task", "delete_task", "complete_task",
              "get_task_dependencies"}

\* the result each scoped operation gives for an id that does not exist
NotFound(op) ==
    CASE op = "delete_task" -> "False"
      [] op = "get_task_dependencies" -> EmptyBag
      [] OTHER -> "None"

\* C4: get_task, update_task, delete_task, complete_task and get_task_dependencies,
\* called with the id of a task of another owner, return what they return for an id
\* that does not exist and change no task and no edge.
C4_CrossOwnerNotFound ==
    [][(/\ last'.op \in ScopedOps
        /\ ~(last'.task_id \in DOMAIN tasks /\ tasks[last'.task_id].user_id = last'.user_id))
       => (/\ last'.result = NotFound(last'.op)
           /\ tasks' = tasks
           /\ deps' = deps)]_vars

\* C4 witness: update_task was called on another owner's task, which has a
\* dependency edge, and returned None.
C4_Witness ==
    /\ last.op = "update_task" /\ last.result = "None"
    /\ last.task_id \in DOMAIN tasks
    /\ tasks[last.task_id].user_id # last.user_id
    /\ RowsOf(deps, last.task_id) # {}

\* ---- claim about concurrent requests (under SpecConcurrent) -------------

\* C2: two add_task_dependency requests whose edges are each other's reverse
\* (X -> Y and Y -> X) never both succeed, however their steps interleave.
C2_NoJointCycle ==
    \A r1 \in DOMAIN requests, r2 \in DOMAIN requests :
        ~(/\ requests[r1].result = "TaskDependency"
          /\ requests[r2].result = "TaskDependency"
          /\ requests[r1].task_id = requests[r2].depends_on_id
          /\ requests[r1].depends_on_id = requests[r2].task_id)

\* ---- claims about natural-language intake (under SpecIntake) ------------

\* the completion text is not the JSON object asked for
Malformed(answer) ==
    /\ answer.kind = "content"
    /\ answer.content \in {ProseContent, ArrayContent}

\* C9: when the completion text is malformed, natural-language creation answers with
\* a task, persisted with the first 100 characters of the input as its title,
\* priority medium and a recorded parse confidence of 0.3.
C9_MalformedGivesFallbackTask ==
    (last.op = "create_task_from_natural_language" /\ Malformed(last.answer))
      => /\ last.result = "TaskResponse"
         /\ last.task_id \in DOMAIN tasks
         /\ tasks[last.task_id].title = Prefix(last.input_text, TitleFallbackLen)
         /\ tasks[last.task_id].priority = "medium"
         /\ Get(tasks[last.task_id].ai_context, "confidence", NoneStr) = "0.3"

\* C10: when the completion request fails with a transport / HTTP error,
\* natural-language creation still answers with a task, which is persisted.
C10_TransportErrorSwallowed ==
    (last.op = "create_task_from_natural_language" /\ last.answer.kind = "http_error")
      => (last.result = "TaskResponse" /\ last.task_id \in DOMAIN tasks)

\* ---- claims about the optimize_user_schedules job (under SpecJob) ---------

\* the suggestions of the answer given for user u
AnswerSchedule(u) ==
    IF u \in DOMAIN job_run.answers /\ job_run.answers[u].kind = "object"
    THEN Get(job_run.answers[u].value, "optimized_schedule", <<>>)
    ELSE <<>>

\* the answer given for user u is a schedule whose suggestions all parse
ValidSuggestion(u) ==
    /\ u \in DOMAIN job_run.answers
    /\ job_run.answers[u].kind = "object"
    /\ \A k \in DOMAIN AnswerSchedule(u) : AnswerSchedule(u)[k].suggested_time # BadTime

\* C11: a run of optimize_user_schedules ends without raising to the scheduler,
\* has visited every user, and every user with eligible tasks whose answer is a
\* valid suggestion has the suggested slot committed on the task, whichever other
\* users failed.
C11_FailuresStayIsolated ==
    job_run.pc \in {"done", "raised"} =>
        /\ job_run.pc = "done"
        /\ DOMAIN job_run.results = Users
        /\ \A u \in Users :
              ValidSuggestion(u) =>
                 \A k \in DOMAIN AnswerSchedule(u) :
                    LET s == AnswerSchedule(u)[k]
                    IN s.task_id \in EligibleTasks(tasks, u) =>
                          tasks[s.task_id].ai_suggested_time_slot = s.suggested_time

\* users whose request was answered with a schedule that was applied whole
Succeeded == {u \in Users : ValidSuggestion(u)}

\* users the loop passed over for having no eligible task
Skipped == {u \in Users : u \in DOMAIN job_run.answers /\ job_run.answers[u] = NotCalled}

\* C12: a run that has ended has reported as total the number of target users
\* and as processed the number of users whose processing succeeded; a user whose
\* AI call failed is not among the processed (users passed over for having no
\* eligible task may or may not be counted).
C12_ReportCountsSucceeded ==
    job_run.pc \in {"done", "raised"} =>
        /\ job_run.pc = "done"
        /\ job_run.total_users = Cardinality(Users)
        /\ job_run.optimized_count \in
              {Cardinality(Succeeded), Cardinality(Succeeded \cup Skipped)}

\* C20: a run of optimize_user_schedules that follows another, given the same
\* answers and with no change by a user in between, leaves every task's
\* suggested slot as the first run left it, and no task more or less.
C20_RepeatedRunConverges ==
    (job_run.run > 1 /\ job_run.pc \in {"done", "raised"}) =>
        Slots(tasks) = job_run.first

\* C20 witness: a second run has ended after both runs wrote a suggested slot.
C20_Witness ==
    /\ job_run.run > 1 /\ job_run.pc = "done"
    /\ job_run.optimized_count > 0
    /\ \E i \in DOMAIN tasks : tasks[i].ai_suggested_time_slot = SlotTime

\* ---- claims about optimize_task_scheduling (under SpecOptimize) -----------

\* the answer carries a suggested time slot
CarriesSlot(answer) ==
    /\ answer.kind = "object"
    /\ Get(answer.value, "suggested_time_slot", NoneInt) # NoneInt

\* C13: optimize_task_scheduling on an owned task writes the suggested time slot
\* of the AI result to the task when the result carries one, and leaves the
\* task's suggested time slot as it was when the result carries none.
C13_SlotWrittenWhenReturned ==
    [][(/\ last'.op = "optimize_task_scheduling"
        /\ OwnedTask(tasks, last'.task_id, last'.user_id))
       => (/\ OwnedTask(tasks', last'.task_id, last'.user_id)
           /\ tasks'[last'.task_id].ai_suggested_time_slot =
                 IF CarriesSlot(last'.answer)
                 THEN last'.answer.value.suggested_time_slot
                 ELSE tasks[last'.task_id].ai_suggested_time_slot)]_vars

\* the call of the AI layer fails: serialising the request raises, the transport
\* fails, or the answer does not parse
AICallFails(T, task_id, answer) ==
    JsonDumpsRaises(T[task_id]) \/ answer.kind \in {"http_error", "not_json"}

\* C14: when the AI call of optimize_task_scheduling fails, nothing is raised to
\* the caller and every field of every task is as it was before the call.
C14_FailureLeavesTask ==
    [][(/\ last'.op = "optimize_task_scheduling"
        /\ OwnedTask(tasks, last'.task_id, last'.user_id)
        /\ AICallFails(tasks, last'.task_id, last'.answer))
       => (tasks' = tasks /\ last'.result = "None")]_vars

\* C14 witness: optimize_task_scheduling was called on the caller's completed
\* task while the transport failed.
C14_Witness ==
    /\ last.op = "optimize_task_scheduling"
    /\ last.answer.kind = "http_error"
    /\ OwnedTask(tasks, last.task_id, last.user_id)
    /\ tasks[last.task_id].status = COMPLETED
    /\ tasks[last.task_id].completed_at # NoneInt

\* ---- claims about the AI scores of create_task (under SpecScores) ---------

DueBonus(hours) ==
    IF hours <= 24 THEN 20
    ELSE IF hours <= 72 THEN 10
    ELSE IF hours <= 168 THEN 5
    ELSE 0

PriorityBase(priority) ==
    CASE priority = "low" -> 25
      [] priority = "medium" -> 50
      [] priority = "high" -> 75
      [] priority = "urgent" -> 95

\* C16: the priority score of an ai_generated task is its priority's base (low 25,
\* medium 50, high 75, urgent 95) plus 20 when it is due within 1 day of its
\* creation, else 10 within 3 days, else 5 within 7 days, else 0, kept within
\* 0..100, the time to the due date being counted in hours.
C16_PriorityScoreFormula ==
    \A i \in DOMAIN tasks :
        tasks[i].ai_generated =>
            tasks[i].ai_priority_score =
                LET bonus == IF tasks[i].due_date = NoneInt THEN 0
                             ELSE DueBonus(tasks[i].due_date - tasks[i].created_at)
                    score == PriorityBase(tasks[i].priority) + bonus
                IN IF score > 100 THEN 100 ELSE score

\* ---- claims about the status of a task ----------------------------------

\* the moves of the lifecycle: pending -> in_progress -> completed (a pending task
\* may be completed at once), cancelled and on_hold entered from a state that is
\* not terminal, and a task on hold taken up again
AllowedTransition(from, to) ==
    \/ from = to
    \/ from = PENDING /\ to \in {IN_PROGRESS, COMPLETED}
    \/ from = IN_PROGRESS /\ to = COMPLETED
    \/ from \in {PENDING, IN_PROGRESS, ON_HOLD} /\ to \in {CANCELLED, ON_HOLD}
    \/ from = ON_HOLD /\ to \in {PENDING, IN_PROGRESS}

\* C17 (under SpecLifecycle): a new task starts pending with completed_at unset,
\* and no call changes the status of a task by a move outside the lifecycle:
\* nothing leaves completed or cancelled, and nothing falls back from in_progress
\* to pending.
C17_StatusFollowsMachine ==
    [][/\ \A i \in DOMAIN tasks' \ DOMAIN tasks :
             tasks'[i].status = PENDING /\ tasks'[i].completed_at = NoneInt
       /\ \A i \in DOMAIN tasks' \cap DOMAIN tasks :
             AllowedTransition(tasks[i].status, tasks'[i].status)]_vars

\* C18 (under SpecPayloads): every persisted task has a status among pending,
\* in_progress, completed, cancelled, on_hold and a priority among low, medium,
\* high, urgent.
C18_StatusAndPriorityInEnum ==
    \A i \in DOMAIN tasks :
        tasks[i].status \in TaskStatus /\ tasks[i].priority \in TaskPriority

\* ---- claim about the errors of add_task_dependency (under Spec) ----------

\* why add_task_dependency(task_id, depends_on_id, user_id) is rejected: one of
\* the tasks is missing or of another owner, or the edge would close a cycle
RejectionCause(T, D, task_id, depends_on_id, user_id) ==
    IF ~BothOwned(T, task_id, depends_on_id, user_id) THEN "InvalidOperation"
    ELSE IF BagCardinality(ReverseRows(D, task_id, depends_on_id)) >= 1
    THEN "CycleDetected"
    ELSE "none"

\* C19: a rejected add_task_dependency tells its caller which error occurred: the
\* answer to a call rejected for a missing or foreign task differs from the
\* answer to a call rejected for a cycle.
C19_RejectionsToldApart ==
    (last.op = "add_task_dependency" /\ last.result # "TaskDependency") =>
        \A i \in TaskIds, j \in TaskIds, u \in Users :
            (RejectionCause(tasks, deps, i, j, u) \notin
                {"none", RejectionCause(tasks, deps, last.task_id,
                                        last.depends_on_id, last.user_id)})
            => /\ AddDependencyResult(tasks, deps, i, j, u) # last.result
               /\ DependencyResponse(AddDependencyResult(tasks, deps, i, j, u))
                     # DependencyResponse(last.result)

\* ---- claims about partial progress of the job (under SpecJob) ------------

\* C21: the suggested slots of a user are committed in that user's turn: at every
\* later point of the run, also when the run is terminated while a later user is
\* being processed, each user processed so far has the suggested slots on the
\* persisted tasks.
C21_CommittedBeforeNextUser ==
    job_run.pc \in {"loop", "done", "terminated"} =>
        \A u \in DOMAIN job_run.results :
            job_run.results[u] = "processed" =>
                \A k \in DOMAIN AnswerSchedule(u) :
                    LET s == AnswerSchedule(u)[k]
                    IN s.task_id \in EligibleTasks(tasks, u) =>
                          tasks[s.task_id].ai_suggested_time_slot = s.suggested_time

\* C21 witness: the run was terminated with users left to visit, after a user
\* was processed whose task carries the suggested slot.
C21_Witness ==
    /\ job_run.pc = "terminated"
    /\ job_run.queue # <<>>
    /\ \E u \in DOMAIN job_run.results :
          /\ job_run.results[u] = "processed"
          /\ \E i \in EligibleTasks(tasks, u) :
                tasks[i].ai_suggested_time_slot = SlotTime

C28_OneRowPerEdge ==
    \A d \in BagToSet(deps) :
        BagCardinality(BagOfAll(LAMBDA r : <<r.task_id, r.depends_on_id>>,
                                [r \in {e \in BagToSet(deps) :
                                           /\ e.task_id = d.task_id
                                           /\ e.depends_on_id = d.depends_on_id} |->
                                   CopiesIn(r, deps)])) = 1

\* ---- claims about partial updates (under SpecPartial, SpecRescore) --------

\* C26: update_task with a payload that supplies no status leaves status and
\* completed_at of the task as they were.
C26_PartialUpdateKeepsCompletion ==
    [][(/\ last'.op = "update_task"
        /\ OwnedTask(tasks, last'.task_id, last'.user_id))
       => /\ tasks'[last'.task_id].status = tasks[last'.task_id].status
          /\ tasks'[last'.task_id].completed_at = tasks[last'.task_id].completed_at]_vars

\* C30: the stored complexity score of an ai_generated task is the complexity
\* formula applied to the estimated_duration and description the task has now.
C30_ComplexityScoreCurrent ==
    \A i \in DOMAIN tasks :
        tasks[i].ai_generated =>
            tasks[i].ai_complexity_score = _calculate_ai_complexity_score(tasks[i])

\* ---- claims about subtasks and parent references ---------------------------

\* the subtask titles the parse result of a task names
SubtaskTitles(i) == Get(tasks[i].ai_context, "subtasks", <<>>)

\* a background job for the task is still queued
SubtasksPending(i) ==
    \E k \in DOMAIN background : background[k].parent_task_id = i

\* C22: once the background job of a task created from natural language has
\* run, every subtask title that makes a valid task has a child task of the new
\* task (same owner, ai_generated, parent reference set): a title that cannot
\* be created does not keep the remaining ones from being created.
C22_RemainingSubtasksCreated ==
    \A i \in DOMAIN tasks :
        ~SubtasksPending(i) =>
            \A k \in DOMAIN SubtaskTitles(i) :
                ~CreateInvalid(SubtaskCreate(SubtaskTitles(i)[k], i)) =>
                    \E j \in DOMAIN tasks :
                        /\ tasks[j].parent_task_id = i
                        /\ tasks[j].title = SubtaskTitles(i)[k]
                        /\ tasks[j].user_id = tasks[i].user_id
                        /\ tasks[j].ai_generated

\* the pairs (task, parent task) of the stored rows
ParentPairs ==
    {<<i, tasks[i].parent_task_id>> : i \in {j \in DOMAIN tasks :
                                               tasks[j].parent_task_id # NoneInt}}

\* C29: a parent reference that is set names an existing task of the same
\* owner, and the parent references form a forest (no task is its own ancestor).
C29_ParentsFormOwnedForest ==
    /\ \A i \in DOMAIN tasks :
          tasks[i].parent_task_id # NoneInt =>
              /\ tasks[i].parent_task_id \in DOMAIN tasks
              /\ tasks[tasks[i].parent_task_id].user_id = tasks[i].user_id
    /\ \A i \in DOMAIN tasks : <<i, i>> \notin PathPairs(ParentPairs, MaxTasks)

\* ---- claims about listing and analytics (under SpecReports) ---------------

\* C23: for the owner's tasks and the current time, get_user_tasks with
\* overdue=true returns exactly the tasks with a due date before now that are
\* not completed, and with due_soon=true exactly the tasks with a due date no
\* later than 7 days from now that are not completed; a task without a due date
\* is in neither result.
C23_DueFiltersExact ==
    last.op = "get_user_tasks" =>
        LET mine == {i \in DOMAIN tasks : tasks[i].user_id = last.user_id}
        IN /\ ~last.result.raised
           /\ last.filters = OverdueFilter =>
                 last.result.tasks =
                     {i \in mine : /\ tasks[i].due_date # NoneInt
                                   /\ tasks[i].due_date < now
                                   /\ tasks[i].status # COMPLETED}
           /\ last.filters = DueSoonFilter =>
                 last.result.tasks =
                     {i \in mine : /\ tasks[i].due_date # NoneInt
                                   /\ tasks[i].due_date <= now + 7 * 24
                                   /\ tasks[i].status # COMPLETED}

\* C24: when every task of the owner was created and then completed,
\* get_productivity_analytics reports total_tasks = completed_tasks and a
\* completion rate of 100, each of the tasks has completed_at set; with no task
\* the completion rate is 0; and the call changes no task.
C24_CompletedReportedInFull ==
    [][last'.op = "get_productivity_analytics" =>
          LET mine == {i \in DOMAIN tasks : tasks[i].user_id = last'.user_id}
          IN /\ tasks' = tasks
             /\ ~last'.result.raised
             /\ (mine # {} /\ \A i \in mine : tasks[i].status = COMPLETED) =>
                   /\ \A i \in mine : tasks[i].completed_at # NoneInt
                   /\ last'.result.total_tasks = last'.result.completed_tasks
                   /\ last'.result.completion_rate.num
                        = 100 * last'.result.completion_rate.den
             /\ mine = {} => last'.result.completion_rate.num = 0]_vars

\* ---- claim about the parsers of EnhancedGrokService (under SpecParsers) ----

\* the calls that parse a completion text
ParserOps == {"parse_natural_language_task", "generate_schedule_optimization",
              "analyze_productivity_patterns"}

\* the completion text is no JSON, or JSON that is not an object
MalformedText(answer) ==
    /\ answer.kind = "content"
    /\ answer.content \in {ProseContent, TruncatedContent, ArrayContent, NullContent}

\* C25: on a completion text that is malformed or not JSON, a parser does not
\* raise and returns the fallback of its shape: a parsed task with confidence
\* 0.3 and the fallback reasoning, a schedule optimization with an empty schedule
\* and exactly one tip that says no optimization is available, or an empty list
\* of insights.
C25_MalformedTextGivesFallback ==
    (last.op \in ParserOps /\ MalformedText(last.answer)) =>
        /\ ~last.result.raised
        /\ last.op = "parse_natural_language_task" =>
              /\ last.result.value.ai_confidence = "0.3"
              /\ last.result.value.reasoning = "Fallback parsing due to AI service error"
              /\ last.result.value.title = Prefix(last.input_text, 100)
        /\ last.op = "generate_schedule_optimization" =>
              /\ last.result.value.optimized_schedule = <<>>
              /\ last.result.value.productivity_tips
                   = <<"Unable to generate optimization at this time">>
        /\ last.op = "analyze_productivity_patterns" => last.result.value = <<>>

\* C25 witness: a JSON array came back for a task to parse, and the result is
\* the fallback with confidence 0.3.
C25_Witness ==
    /\ last.op = "parse_natural_language_task"
    /\ last.answer = [kind |-> "content", content |-> ArrayContent]
    /\ ~last.result.raised
    /\ last.result.value.ai_confidence = "0.3"

====
